---- MODULE Spec2Model ----
(***************************************************************************)
(* Model of week6.py: the interactive image downloader.                    *)
(*                                                                         *)
(* Strings are sequences of one-character strings.  The atom "U+00E9"      *)
(* stands for the single non-ASCII letter e-acute.  Paths follow POSIX     *)
(* os.path.  The output directory is a function from entry name to file    *)
(* content; the entries "." and ".." always exist in an existing           *)
(* directory.                                                              *)
(***************************************************************************)
EXTENDS Integers, Sequences, FiniteSets, TLC

VARIABLES pc, dir_ready, files, line, url, content_type, proceed, filename,
          filepath, original_filepath, counter, total_size, downloaded,
          body, served, file_open, resp_open, result, printed, handed,
          deleted, wrote, probed, calls, gets, now, raised

\* pc                 where main or download_image stands
\* dir_ready          create_directory has succeeded
\* files              the output directory: entry name -> content
\* line               the line last read at a prompt of main
\* url ... raised     the locals of the download_image call in progress:
\*   body             the chunks iter_content has still to yield
\*   served           the bytes iter_content has yielded so far
\*   file_open        the with block of line 92 holds the file
\*   resp_open        the response of line 61 holds its connection
\*   raised           the class of the exception the call has caught
\*   probed           the paths the probe found existing
\*   wrote            the call has created or written a file
\*   gets             the GET requests the call has issued
\*   now              the second read from the clock at line 37
\* printed            what the latest step of the program printed
\* handed             <<original path, suffix>> of every target opened
\* deleted            some file of the directory has been deleted
\* calls              the calls of download_image made so far
vars == <<pc, dir_ready, files, line, url, content_type, proceed, filename,
          filepath, original_filepath, counter, total_size, downloaded,
          body, served, file_open, resp_open, result, printed, handed,
          deleted, wrote, probed, calls, gets, now, raised>>

-----------------------------------------------------------------------------
(* Bounds of the model.                                                    *)

MaxUrlLen == 4
MaxCtLen == 4
MaxCalls == 2
MaxFiles == 2

-----------------------------------------------------------------------------
(* Characters and the string primitives the program uses.                  *)

UpperSeq == <<"A","B","C","D","E","F","G","H","I","J","K","L","M",
              "N","O","P","Q","R","S","T","U","V","W","X","Y","Z">>
LowerSeq == <<"a","b","c","d","e","f","g","h","i","j","k","l","m",
              "n","o","p","q","r","s","t","u","v","w","x","y","z">>
DigitSeq == <<"0","1","2","3","4","5","6","7","8","9">>

Range(s) == {s[i] : i \in 1..Len(s)}

AsciiLetters == Range(UpperSeq) \cup Range(LowerSeq)
Digits == Range(DigitSeq)
UnicodeLetters == {"U+00E9"}
Whitespace == {" "}

\* str.lower() on one character
lower_char(c) ==
  IF c \in Range(UpperSeq)
  THEN LowerSeq[CHOOSE i \in 1..Len(UpperSeq) : UpperSeq[i] = c]
  ELSE c

\* str.lower()
lower(s) == [i \in 1..Len(s) |-> lower_char(s[i])]

\* s[i:j] with 1-based inclusive bounds; empty when i > j
Slice(s, i, j) == IF i > j THEN <<>> ELSE SubSeq(s, i, j)

\* index of the first character of s at or after position from that lies in
\* set S; 0 when there is none  (str.find)
find(s, S, from) ==
  IF \E i \in from..Len(s) : s[i] \in S
  THEN CHOOSE i \in from..Len(s) :
         s[i] \in S /\ \A j \in from..(i - 1) : s[j] \notin S
  ELSE 0

\* index of the last occurrence of character c in s; 0 when there is none
rfind(s, c) ==
  IF \E i \in 1..Len(s) : s[i] = c
  THEN CHOOSE i \in 1..Len(s) :
         s[i] = c /\ \A j \in (i + 1)..Len(s) : s[j] # c
  ELSE 0

\* s.split(c)[0]
split_first(s, c) ==
  IF find(s, {c}, 1) = 0 THEN s ELSE Slice(s, 1, find(s, {c}, 1) - 1)

\* s.split(c)[-1]
split_last(s, c) == Slice(s, rfind(s, c) + 1, Len(s))

\* str.strip()
strip(s) ==
  IF \A i \in 1..Len(s) : s[i] \in Whitespace THEN <<>>
  ELSE LET a == CHOOSE i \in 1..Len(s) :
                  s[i] \notin Whitespace /\
                  \A j \in 1..(i - 1) : s[j] \in Whitespace
           b == CHOOSE i \in 1..Len(s) :
                  s[i] \notin Whitespace /\
                  \A j \in (i + 1)..Len(s) : s[j] \in Whitespace
       IN  SubSeq(s, a, b)

\* str.startswith
startswith(s, p) == Len(s) >= Len(p) /\ SubSeq(s, 1, Len(p)) = p

\* all sequences over S of length at most n
SeqsUpTo(S, n) == UNION {[1..k -> S] : k \in 0..n}

-----------------------------------------------------------------------------
(* urllib.parse.urlparse(url).path                                         *)

SchemeChars == AsciiLetters \cup Digits \cup {"+", "-", "."}

\* urlsplit: the rest of the URL once a leading scheme is removed
after_scheme(u) ==
  LET i == find(u, {":"}, 1)
  IN  IF i > 1 /\ u[1] \in AsciiLetters
         /\ \A k \in 1..(i - 1) : u[k] \in SchemeChars
      THEN Slice(u, i + 1, Len(u))
      ELSE u

\* urlsplit: the rest of the URL once a leading //netloc is removed
after_netloc(u) ==
  IF Len(u) >= 2 /\ u[1] = "/" /\ u[2] = "/"
  THEN LET d == find(u, {"/", "?", "#"}, 3)
       IN  IF d = 0 THEN <<>> ELSE Slice(u, d, Len(u))
  ELSE u

\* urlparse: ;params are cut from the last path segment
splitparams(p) ==
  LET i == find(p, {";"}, rfind(p, "/") + 1)
  IN  IF i = 0 THEN p ELSE Slice(p, 1, i - 1)

urlparse_path(u) ==
  splitparams(split_first(split_first(after_netloc(after_scheme(u)), "#"), "?"))

-----------------------------------------------------------------------------
(* os.path                                                                 *)

basename(p) == Slice(p, rfind(p, "/") + 1, Len(p))

path_join(d, f) == d \o <<"/">> \o f

\* os.path.splitext: the extension starts at the last period of the last
\* component unless only periods precede it there
splitext(p) ==
  LET sepIndex == rfind(p, "/")
      dotIndex == rfind(p, ".")
  IN  IF dotIndex > sepIndex
         /\ \E k \in (sepIndex + 1)..(dotIndex - 1) : p[k] # "."
      THEN <<Slice(p, 1, dotIndex - 1), Slice(p, dotIndex, Len(p))>>
      ELSE <<p, <<>>>>

-----------------------------------------------------------------------------
(* get_valid_filename                                                      *)

MaxNameLen == 100

\* the pattern class \w of a str pattern: letters and digits of any script,
\* and the underscore
IsWordChar(c) == c \in AsciiLetters \cup Digits \cup UnicodeLetters \cup {"_"}

\* variant: a blacklist of separators in place of the whitelist
re_sub_blacklist(s) ==
  [i \in 1..Len(s) |-> IF s[i] \in {"/", " "} THEN "_" ELSE s[i]]

\* re.sub(r'[^\w\-_.]', '_', s)
re_sub_unsafe(s) ==
  [i \in 1..Len(s) |->
     IF IsWordChar(s[i]) \/ s[i] \in {"-", "_", "."} THEN s[i] ELSE "_"]

\* decimal digits of n, most significant first
int_str(n) == IF n < 10 THEN <<DigitSeq[n + 1]>>
              ELSE <<DigitSeq[(n \div 10) + 1], DigitSeq[(n % 10) + 1]>>

\* datetime.now().strftime("%Y%m%d_%H%M%S") at second t of the session
strftime(t) ==
  <<"2","0","2","6","0","1","0","1","_","1","2","0","0">>
    \o <<DigitSeq[(t \div 10) + 1], DigitSeq[(t % 10) + 1]>>

\* the extension taken from the content type (lines 28-33)
extension_of(ct) ==
  IF ct # <<>> /\ "/" \in Range(ct)
  THEN strip(split_first(split_last(ct, "/"), ";"))
  ELSE <<"b", "i", "n">>

\* the candidate taken from the URL (lines 22-23)
url_filename(u) == basename(urlparse_path(u))

\* the test of line 26
rejected(f) == f = <<>> \/ "." \notin Range(f) \/ Len(f) > MaxNameLen

\* the name built at line 38
synthesized(ct, t) ==
  <<"i","m","a","g","e","_">> \o strftime(t) \o <<".">> \o extension_of(ct)

get_valid_filename(u, ct, t) ==
  LET cand == url_filename(u)
      name == IF rejected(cand) THEN synthesized(ct, t) ELSE cand
  IN  re_sub_unsafe(split_first(name, "?"))

-----------------------------------------------------------------------------
(* The output directory, the collision probe, the console and exceptions.  *)

download_dir == <<"F","e","t","c","h","e","d","_","I","m","a","g","e","s">>

None == <<"<None>">>

\* the directory entry a path below download_dir names
entry_of(p) == Slice(p, Len(download_dir) + 2, Len(p))

DotEntries == {<<".">>, <<".", ".">>}

\* variant: only the listed files count, not the entries . and ..
exists_listed_only(p, fs, ready) == ready /\ entry_of(p) \in DOMAIN fs

\* os.path.exists(p) for a path built by path_join(download_dir, ...)
exists(p, fs, ready) ==
  ready /\ (entry_of(p) \in DOMAIN fs \/ entry_of(p) \in DotEntries)

\* variant: the counter is appended after the extension
suffixed_after_ext(orig, c) == orig \o <<"_">> \o int_str(c)

\* the path tried after the c-th collision (lines 83-84)
suffixed(orig, c) ==
  splitext(orig)[1] \o <<"_">> \o int_str(c) \o splitext(orig)[2]

\* the whole probe of lines 80-85 against an unchanging directory
RECURSIVE probe_from(_, _, _, _, _)
probe_from(p, orig, c, fs, ready) ==
  IF exists(p, fs, ready)
  THEN probe_from(suffixed(orig, c), orig, c + 1, fs, ready)
  ELSE p

\* the exception classes that can reach the handlers, each with the classes
\* it is an instance of
Ancestors(exc) ==
  CASE exc = "ConnectTimeout" ->
         {"ConnectTimeout", "ConnectionError", "Timeout", "RequestException",
          "IOError", "Exception"}
    [] exc = "ReadTimeout" ->
         {"ReadTimeout", "Timeout", "RequestException", "IOError", "Exception"}
    [] exc = "ConnectionError" ->
         {"ConnectionError", "RequestException", "IOError", "Exception"}
    [] exc = "HTTPError" ->
         {"HTTPError", "RequestException", "IOError", "Exception"}
    [] exc = "TooManyRedirects" ->
         {"TooManyRedirects", "RequestException", "IOError", "Exception"}
    [] exc = "ChunkedEncodingError" ->
         {"ChunkedEncodingError", "RequestException", "IOError", "Exception"}
    [] exc = "MissingSchema" ->
         {"MissingSchema", "RequestException", "ValueError", "IOError",
          "Exception"}
    [] exc = "PermissionError" -> {"PermissionError", "IOError", "Exception"}
    [] exc = "IsADirectoryError" ->
         {"IsADirectoryError", "IOError", "Exception"}
    [] exc = "ValueError" -> {"ValueError", "Exception"}
    [] exc = "EOFError" -> {"EOFError", "Exception"}

MsgTimeout == "Error: Connection timed out."
MsgConnFailed == "Error: Connection failed."
MsgHTTP == "Error: HTTP error occurred"
MsgRedirects == "Error: Too many redirects."
MsgFailedDownload == "Error: Failed to download image"
MsgFailedSave == "Error: Failed to save file"
MsgUnexpected == "Unexpected error"

\* the except clauses of download_image, in source order
ExceptClauses ==
  << <<"Timeout", MsgTimeout>>,
     <<"ConnectionError", MsgConnFailed>>,
     <<"HTTPError", MsgHTTP>>,
     <<"TooManyRedirects", MsgRedirects>>,
     <<"RequestException", MsgFailedDownload>>,
     <<"IOError", MsgFailedSave>>,
     <<"Exception", MsgUnexpected>> >>

\* variant: the IOError clause is tried before the transport clauses
except_message_io_first(exc) ==
  IF "IOError" \in Ancestors(exc) THEN MsgFailedSave ELSE MsgUnexpected

\* the message of the first clause that matches the exception
except_message(exc) ==
  LET k == CHOOSE i \in 1..Len(ExceptClauses) :
             /\ ExceptClauses[i][1] \in Ancestors(exc)
             /\ \A j \in 1..(i - 1) : ExceptClauses[j][1] \notin Ancestors(exc)
  IN  ExceptClauses[k][2]

MsgBanner == "IMAGE DOWNLOADER"
MsgReady == "Directory is ready."
MsgDirError == "Error creating directory"
MsgCannotProceed == "Cannot proceed without download directory."
PromptURL == "Enter the image URL (or 'quit' to exit): "
PromptContinue == "Do you want to continue downloading? (y/n): "
PromptAnother == "Download another image? (y/n): "
MsgGoodbye == "Goodbye!"
MsgPleaseEnter == "Please enter a valid URL."
MsgConnecting == "Connecting to"
MsgWarning == "Warning: Content-Type may not be an image"
MsgCancelled == "Download cancelled by user."
MsgDownloadingTo == "Downloading to"
MsgProgress == "Progress"
MsgCompleted == "Download completed successfully!"
MsgSuccess == "Download successful!"
MsgFailed == "Download failed."

-----------------------------------------------------------------------------
(* Inputs of the interactive session.                                      *)

Authority == <<"h","t","t","p",":","/","/","h">>
UrlCat == Authority \o <<"/","p","/","c","a","t",".","j","p","g">>
UrlRender == Authority \o <<"/","r","?","i","d","=","9">>
UrlSamples == {UrlCat, UrlRender}

QuitLines == {<<"q">>, <<" ","Q","u","i","t">>, <<"E","X","I","T"," ">>}
BlankLines == {<<>>, <<" ">>}
Lines == QuitLines \cup BlankLines \cup UrlSamples

Answers == {<<"y">>, <<"Y">>, <<"n">>, <<>>, <<"y","e","s">>}

CtJpeg == <<"i","m","a","g","e","/","j","p","e","g">>
CtHtml == <<"t","e","x","t","/","h","t","m","l",";","c">>
\* a response may carry no content-type header (line 65 then reads '')
CtHeaders == {CtJpeg, CtHtml, <<>>}

Bodies == {<< <<1>>, <<>>, <<2, 3>> >>}

RECURSIVE Concat(_)
Concat(chunks) ==
  IF chunks = <<>> THEN <<>> ELSE Head(chunks) \o Concat(Tail(chunks))

\* values of the content-length header: absent (0), the body length, or a
\* value int() rejects (-1)
LengthHeaders(b) == {0, Len(Concat(b)), -1}

\* the second of the session at which a download reads the clock: within
\* one second every synthesized name of the session collides
SessionSeconds == {0}

EnvContent == <<9>>
EnvNames == {<<"c","a","t",".","j","p","g">>}

-----------------------------------------------------------------------------
(* Initial state: the program has not run and the output directory holds   *)
(* no file; files of other origin appear through the environment.          *)

NoLocals ==
  /\ url = <<>> /\ content_type = <<>> /\ proceed = <<>> /\ filename = <<>>
  /\ filepath = <<>> /\ original_filepath = <<>> /\ counter = 0
  /\ total_size = 0 /\ downloaded = 0 /\ body = <<>> /\ served = <<>>
  /\ result = None /\ raised = "none" /\ wrote = FALSE /\ probed = {}
  /\ gets = 0 /\ resp_open = FALSE /\ now = 0

Init ==
  /\ pc = "start"
  /\ dir_ready = FALSE
  /\ files = <<>>
  /\ line = <<>>
  /\ NoLocals
  /\ file_open = FALSE
  /\ printed = <<>>
  /\ handed = <<>>
  /\ deleted = FALSE
  /\ calls = 0

\* the locals of download_image at entry and once its frame is gone
ClearLocals ==
  /\ url' = <<>> /\ content_type' = <<>> /\ proceed' = <<>>
  /\ filename' = <<>> /\ filepath' = <<>> /\ original_filepath' = <<>>
  /\ counter' = 0 /\ total_size' = 0 /\ downloaded' = 0 /\ body' = <<>>
  /\ served' = <<>> /\ result' = None /\ raised' = "none" /\ wrote' = FALSE
  /\ probed' = {} /\ gets' = 0 /\ resp_open' = FALSE /\ now' = 0

-----------------------------------------------------------------------------
(* main                                                                    *)

\* lines 127-137: banner, create_directory, abort when it fails
CreateDirectory ==
  /\ pc = "start"
  /\ \E ok \in BOOLEAN :
       IF ok
       THEN /\ dir_ready' = TRUE
            /\ printed' = <<MsgBanner, MsgReady>>
            /\ pc' = "prompt"
       ELSE /\ dir_ready' = FALSE
            /\ printed' = <<MsgBanner, MsgDirError, MsgCannotProceed>>
            /\ pc' = "terminated"
  /\ UNCHANGED <<files, line, url, content_type, proceed, filename, filepath,
                 original_filepath, counter, total_size, downloaded, body,
                 served, file_open, resp_open, result, handed, deleted,
                 wrote, probed, calls, gets, now, raised>>

\* variant: the one-letter word is missing
QuitWords_no_q == {<<"q","u","i","t">>, <<"e","x","i","t">>}

\* line 144
QuitWords == {<<"q","u","i","t">>, <<"e","x","i","t">>, <<"q">>}

\* lines 141-153: one line of input at the URL prompt
MainPrompt ==
  /\ pc = "prompt"
  /\ \E ln \in Lines :
       LET u == strip(ln) IN
       /\ line' = ln
       /\ IF lower(u) \in QuitWords
          THEN /\ printed' = <<PromptURL, MsgGoodbye>>
               /\ pc' = "terminated"
               /\ UNCHANGED <<url, calls>>
          ELSE IF u = <<>>
          THEN /\ printed' = <<PromptURL, MsgPleaseEnter>>
               /\ pc' = "prompt"
               /\ UNCHANGED <<url, calls>>
          ELSE /\ calls < MaxCalls
               /\ printed' = <<PromptURL, MsgConnecting>>
               /\ url' = u
               /\ calls' = calls + 1
               /\ pc' = "get"
  /\ UNCHANGED <<dir_ready, files, content_type, proceed, filename, filepath,
                 original_filepath, counter, total_size, downloaded, body,
                 served, file_open, resp_open, result, handed, deleted,
                 wrote, probed, gets, now, raised>>

\* lines 155-158: report the outcome; the frame of download_image is gone
MainReport ==
  /\ pc = "returned"
  /\ printed' = <<IF result # None THEN MsgSuccess ELSE MsgFailed>>
  /\ pc' = "ask"
  /\ ClearLocals
  /\ UNCHANGED <<dir_ready, files, line, file_open, handed, deleted, calls>>

\* lines 160-164: ask whether to go on
MainAsk ==
  /\ pc = "ask"
  /\ \E answer \in Answers :
       /\ line' = answer
       /\ IF lower(answer) # <<"y">>
          THEN /\ printed' = <<PromptAnother, MsgGoodbye>>
               /\ pc' = "terminated"
          ELSE /\ printed' = <<PromptAnother>>
               /\ pc' = "prompt"
  /\ UNCHANGED <<dir_ready, files, url, content_type, proceed, filename,
                 filepath, original_filepath, counter, total_size, downloaded,
                 body, served, file_open, resp_open, result, handed, deleted,
                 wrote, probed, calls, gets, now, raised>>

-----------------------------------------------------------------------------
(* download_image                                                          *)

\* control reaches the matching except clause and then line 122
Except(exc) ==
  /\ raised' = exc
  /\ printed' = <<except_message(exc)>>
  /\ result' = None
  /\ pc' = "returned"

RequestErrors == {"ConnectTimeout", "ReadTimeout", "ConnectionError",
                  "TooManyRedirects", "MissingSchema"}

ImagePrefix == <<"i","m","a","g","e","/">>

\* line 68
is_image(ct) == startswith(ct, ImagePrefix)

\* lines 61-69: the GET, the status check and the content-type test
Request ==
  /\ pc = "get"
  /\ gets' = gets + 1
  /\ line' = <<>>
  /\ \/ \E exc \in RequestErrors :
          /\ Except(exc)
          /\ resp_open' = FALSE
          /\ UNCHANGED <<content_type, body>>
     \/ /\ resp_open' = TRUE
        /\ Except("HTTPError")
        /\ UNCHANGED <<content_type, body>>
     \/ \E header \in CtHeaders, b \in Bodies :
          /\ resp_open' = TRUE
          /\ content_type' = lower(header)
          /\ body' = b
          /\ IF is_image(content_type')
             THEN pc' = "resolve" /\ printed' = <<>>
             ELSE pc' = "confirm" /\ printed' = <<MsgWarning>>
          /\ UNCHANGED <<result, raised>>
  /\ UNCHANGED <<dir_ready, files, url, proceed, filename, filepath,
                 original_filepath, counter, total_size, downloaded, served,
                 file_open,
                 handed, deleted, wrote, probed, calls, now>>

\* variant: only an explicit n cancels
declines_only_n(answer) == answer = <<"n">>

\* line 71
declines(answer) == answer # <<"y">>

\* lines 70-73: the confirmation prompt for a non-image
Confirm ==
  /\ pc = "confirm"
  /\ \/ /\ printed' = <<PromptContinue, except_message("EOFError")>>
        /\ raised' = "EOFError"
        /\ result' = None
        /\ pc' = "returned"
        /\ UNCHANGED proceed
     \/ \E answer \in Answers :
          /\ proceed' = lower(answer)
          /\ IF declines(proceed')
             THEN /\ printed' = <<PromptContinue, MsgCancelled>>
                  /\ result' = None
                  /\ pc' = "returned"
             ELSE /\ printed' = <<PromptContinue>>
                  /\ pc' = "resolve"
                  /\ UNCHANGED result
          /\ UNCHANGED raised
  /\ UNCHANGED <<dir_ready, files, line, url, content_type, filename, filepath,
                 original_filepath, counter, total_size, downloaded, body,
                 served, file_open, resp_open, handed, deleted, wrote,
                 probed, calls, gets, now>>

\* lines 76-81: the filename, the first path to try, the probe's counter;
\* the wall clock is read (line 37) only when the URL's last segment is
\* rejected, and it need not have advanced since the call before
Resolve ==
  /\ pc = "resolve"
  /\ IF rejected(url_filename(url))
     THEN \E t \in SessionSeconds :
            /\ now' = t
            /\ filename' = get_valid_filename(url, content_type, t)
     ELSE /\ now' = now
          /\ filename' = get_valid_filename(url, content_type, now)
  /\ filepath' = path_join(download_dir, filename')
  /\ original_filepath' = filepath'
  /\ counter' = 1
  /\ pc' = "probe"
  /\ printed' = <<>>
  /\ UNCHANGED <<dir_ready, files, line, url, content_type, proceed, total_size,
                 downloaded, body, served, file_open, resp_open, result,
                 handed, deleted, wrote, probed, calls, gets, raised>>

\* lines 82-88: one test of the while loop, and its body or its exit
ProbeStep ==
  /\ pc = "probe"
  /\ IF exists(filepath, files, dir_ready)
     THEN /\ probed' = probed \cup {filepath}
          /\ filepath' = suffixed(original_filepath, counter)
          /\ counter' = counter + 1
          /\ printed' = <<>>
          /\ UNCHANGED pc
     ELSE /\ pc' = "open"
          /\ printed' = <<MsgDownloadingTo>>
          /\ UNCHANGED <<probed, filepath, counter>>
  /\ UNCHANGED <<dir_ready, files, line, url, content_type, proceed, filename,
                 original_filepath, total_size, downloaded, body, served,
                 file_open, resp_open, result, handed, deleted, wrote,
                 calls, gets, now, raised>>

\* the directory after open(p, 'wb') succeeds: the entry is created, or
\* truncated when it exists
opened_wb(fs, e) ==
  [x \in DOMAIN fs \cup {e} |-> IF x = e THEN <<>> ELSE fs[x]]

\* lines 89-92: the content-length header is read and converted, then the
\* target is opened
Open ==
  /\ pc = "open"
  /\ \E len \in LengthHeaders(body) : total_size' = len
  /\ IF total_size' = -1
     THEN /\ Except("ValueError")
          /\ UNCHANGED <<files, file_open, wrote, handed>>
     ELSE IF entry_of(filepath) \in DotEntries
     THEN /\ Except("IsADirectoryError")
          /\ UNCHANGED <<files, file_open, wrote, handed>>
     ELSE \/ /\ Except("PermissionError")
             /\ UNCHANGED <<files, file_open, wrote, handed>>
          \/ /\ files' = opened_wb(files, entry_of(filepath))
             /\ file_open' = TRUE
             /\ wrote' = TRUE
             /\ handed' = Append(handed, <<original_filepath, counter - 1>>)
             /\ pc' = "stream"
             /\ printed' = <<>>
             /\ UNCHANGED <<result, raised>>
  /\ UNCHANGED <<dir_ready, line, url, content_type, proceed, filename,
                 filepath, original_filepath, counter, downloaded, body,
                 served, resp_open, deleted, probed, calls, gets, now>>

\* variant: each chunk replaces what was written before
written_replacing(content, chunk) == chunk

\* file.write(chunk) of line 95
written(content, chunk) == content \o chunk

\* lines 93-99: one chunk of the body
StreamChunk ==
  /\ pc = "stream"
  /\ body # <<>>
  /\ LET chunk == Head(body)
         e == entry_of(filepath)
     IN  \/ /\ body' = Tail(body)
            /\ served' = served \o chunk
            /\ IF chunk # <<>>
               THEN /\ files' = [files EXCEPT ![e] = written(@, chunk)]
                    /\ downloaded' = downloaded + Len(chunk)
                    /\ printed' = IF total_size > 0
                                  THEN <<MsgProgress>> ELSE <<>>
               ELSE /\ printed' = <<>>
                    /\ UNCHANGED <<files, downloaded>>
            /\ UNCHANGED <<file_open, resp_open, result, raised, pc>>
         \/ /\ chunk # <<>>
            /\ Except("PermissionError")
            /\ file_open' = FALSE
            /\ served' = served \o chunk
            /\ UNCHANGED <<files, downloaded, body, resp_open>>
  /\ UNCHANGED <<dir_ready, line, url, content_type, proceed, filename, filepath,
                 original_filepath, counter, total_size, handed, deleted,
                 wrote, probed, calls, gets, now>>

StreamErrors == {"ConnectionError", "ChunkedEncodingError"}

\* line 93: the transport fails while the next chunk is awaited; the with
\* block closes the file and the failed connection is dropped
StreamFail ==
  /\ pc = "stream"
  /\ \E exc \in StreamErrors : Except(exc)
  /\ file_open' = FALSE
  /\ resp_open' = FALSE
  /\ UNCHANGED <<dir_ready, files, line, url, content_type, proceed, filename,
                 filepath, original_filepath, counter, total_size,
                 downloaded, body, served, handed, deleted, wrote, probed,
                 calls, gets, now>>

\* lines 93, 101-105: the body is exhausted, the with block closes the file
StreamEnd ==
  /\ pc = "stream"
  /\ body = <<>>
  /\ file_open' = FALSE
  /\ resp_open' = FALSE
  /\ printed' = <<MsgCompleted>>
  /\ result' = filepath
  /\ pc' = "returned"
  /\ UNCHANGED <<dir_ready, files, line, url, content_type, proceed, filename,
                 filepath, original_filepath, counter, total_size,
                 downloaded, body, served, handed, deleted, wrote, probed,
                 calls, gets, now, raised>>

\* line 61: the response is never closed; once download_image has returned
\* the runtime may finalize an unread response and drop its connection at a
\* time of its choosing
ReclaimResponse ==
  /\ pc = "returned"
  /\ resp_open
  /\ resp_open' = FALSE
  /\ UNCHANGED <<pc, printed, dir_ready, files, line, url, content_type, proceed, filename,
                 filepath, original_filepath, counter, total_size,
                 downloaded, body, served, file_open, result,
                 handed, deleted, wrote, probed, calls, gets, now, raised>>

-----------------------------------------------------------------------------
(* Other processes acting on the output directory.  They act while the     *)
(* program waits for console input inside an iteration and in the window   *)
(* between the existence probe and the open.                               *)

EnvPcs == {"prompt", "confirm", "open"}

EnvCreate ==
  /\ pc \in EnvPcs
  /\ dir_ready
  /\ Cardinality(DOMAIN files) < MaxFiles
  /\ \E e \in EnvNames \cup (IF pc = "open" THEN {entry_of(filepath)} ELSE {}) :
       /\ e \notin DOMAIN files
       /\ e \notin DotEntries
       /\ files' = [x \in DOMAIN files \cup {e} |->
                      IF x = e THEN EnvContent ELSE files[x]]
  /\ UNCHANGED <<pc, printed, dir_ready, line, url, content_type, proceed, filename,
                 filepath, original_filepath, counter, total_size,
                 downloaded, body, served, file_open, resp_open, result,
                 handed, deleted, wrote, probed, calls, gets, now, raised>>

EnvDelete ==
  /\ pc \in EnvPcs
  /\ \E e \in DOMAIN files :
       files' = [x \in DOMAIN files \ {e} |-> files[x]]
  /\ deleted' = TRUE
  /\ UNCHANGED <<pc, printed, dir_ready, line, url, content_type, proceed, filename,
                 filepath, original_filepath, counter, total_size,
                 downloaded, body, served, file_open, resp_open, result,
                 handed, wrote, probed, calls, gets, now, raised>>

Next ==
  \/ CreateDirectory
  \/ MainPrompt
  \/ MainReport
  \/ MainAsk
  \/ Request
  \/ Confirm
  \/ Resolve
  \/ ProbeStep
  \/ Open
  \/ StreamChunk
  \/ StreamFail
  \/ StreamEnd
  \/ ReclaimResponse
  \/ EnvCreate
  \/ EnvDelete

Spec == Init /\ [][Next]_vars

-----------------------------------------------------------------------------
(* get_valid_filename and the probe as functions of their inputs: every    *)
(* URL and content type up to a bounded length, and names at the length    *)
(* limit of line 26.                                                       *)

UrlChars == {"a", ".", "/", "?", ";", "+", "U+00E9"}
CtChars == {"a", "A", "/", ";", " ", "+", "?"}

LongName(n) == [i \in 1..n |-> IF i = n - 1 THEN "." ELSE "a"]
UrlAtLimit == Authority \o <<"/">> \o LongName(MaxNameLen)
UrlOverLimit == Authority \o <<"/">> \o LongName(MaxNameLen + 1)

UrlTails == SeqsUpTo(UrlChars, MaxUrlLen)
UrlInputs == {Authority \o t : t \in UrlTails} \cup UrlTails
               \cup {UrlAtLimit, UrlOverLimit}
UrlFew == {UrlRender, UrlOverLimit}
CtInputs == SeqsUpTo(CtChars, MaxCtLen)
CtFew == {CtJpeg, <<>>}

Timestamps == {0, 7}

FnDirs == {<<>>, [e \in {<<"a", ".", "a">>} |-> EnvContent]}

InitFn ==
  /\ pc = "fn_call"
  /\ dir_ready = TRUE
  /\ files \in FnDirs
  /\ line = <<>>
  /\ \/ url \in UrlInputs /\ content_type \in CtFew
     \/ url \in UrlFew /\ content_type \in CtInputs
  /\ now \in Timestamps
  /\ proceed = <<>> /\ filename = <<>>
  /\ filepath = <<>> /\ original_filepath = <<>> /\ counter = 0
  /\ total_size = 0 /\ downloaded = 0 /\ body = <<>> /\ served = <<>>
  /\ result = None /\ raised = "none" /\ wrote = FALSE /\ probed = {}
  /\ gets = 0
  /\ file_open = FALSE /\ resp_open = FALSE
  /\ printed = <<>>
  /\ handed = <<>>
  /\ deleted = FALSE
  /\ calls = 0

\* lines 76-77, 80-81 applied to the inputs
FnResolve ==
  /\ pc = "fn_call"
  /\ filename' = get_valid_filename(url, content_type, now)
  /\ filepath' = path_join(download_dir, filename')
  /\ original_filepath' = filepath'
  /\ counter' = 1
  /\ pc' = "fn_named"
  /\ UNCHANGED <<dir_ready, files, line, url, content_type, proceed,
                 total_size, downloaded, body, served, file_open, resp_open,
                 result, printed, handed, deleted, wrote, probed, calls,
                 gets, now, raised>>

\* lines 82-85 run to completion
FnProbe ==
  /\ pc = "fn_named"
  /\ filepath' = probe_from(filepath, original_filepath, counter, files,
                            dir_ready)
  /\ pc' = "fn_probed"
  /\ UNCHANGED <<dir_ready, files, line, url, content_type, proceed,
                 filename, original_filepath, counter, total_size,
                 downloaded, body, served, file_open, resp_open, result,
                 printed, handed, deleted, wrote, probed, calls, gets, now,
                 raised>>

NextFn == FnResolve \/ FnProbe

SpecFn == InitFn /\ [][NextFn]_vars

-----------------------------------------------------------------------------
(* Properties.                                                             *)

CatName == <<"c","a","t",".","j","p","g">>
CatPath == path_join(download_dir, CatName)

\* the k-th name of the linear probe for path o: o, stem_1.ext, stem_2.ext
Candidate(o, k) ==
  IF k = 0 THEN o
  ELSE splitext(o)[1] \o <<"_">> \o int_str(k) \o splitext(o)[2]

\* once the probe has ended, the path is the first candidate that did not
\* exist when it was probed, and every earlier candidate existed then
FirstFreeCandidate ==
  pc \in {"open", "stream"} =>
    /\ counter >= 1
    /\ filepath = Candidate(original_filepath, counter - 1)
    /\ probed = {Candidate(original_filepath, k) : k \in 0..(counter - 2)}

\* the suffixes handed out for one resolved filename increase strictly
SuffixesIncrease ==
  \A i, j \in 1..Len(handed) :
    (i < j /\ handed[i][1] = handed[j][1]) => handed[i][2] < handed[j][2]

\* C1 as stated: the download goes to name.ext, name_1.ext, name_2.ext, ...
\* in turn, and over any sequence of downloads and deletions the suffixes
\* handed out for one resolved filename increase strictly, so that a freed
\* name is never handed out again.
C1_NeverReused == FirstFreeCandidate /\ SuffixesIncrease

\* C1 amended: the download goes to the first of name.ext, name_1.ext,
\* name_2.ext, ... that does not exist when probed; as long as no file has
\* been deleted the suffixes handed out for one resolved filename increase
\* strictly (a name freed by a deletion is handed out again).
C1_FirstFree == FirstFreeCandidate /\ (~deleted => SuffixesIncrease)

C1_Witness ==
  /\ ~deleted
  /\ handed = << <<CatPath, 1>>, <<CatPath, 2>> >>
  /\ pc = "stream"
  /\ filepath = path_join(download_dir,
                          <<"c","a","t","_","2",".","j","p","g">>)

\* C2 as stated: the open is an exclusive create, so the step that opens
\* the target never finds a file at that path, one that appeared after the
\* probe included, and no existing file is truncated.
C2_ExclusiveCreate ==
  [][(pc = "open" /\ pc' = "stream") =>
       /\ entry_of(filepath) \notin DOMAIN files
       /\ \A e \in DOMAIN files : files'[e] = files[e]]_vars

\* C3: when download_image returns a path, the file at that path holds the
\* chunks of the response concatenated in arrival order, the running byte
\* count equals its length, and the whole body was consumed; the URL
\* .../cat.jpg with content type image/jpeg and no name collision returns
\* Fetched_Images/cat.jpg.
C3_ExactBytes ==
  (pc = "returned" /\ result # None) =>
    /\ entry_of(result) \in DOMAIN files
    /\ files[entry_of(result)] = served
    /\ downloaded = Len(files[entry_of(result)])
    /\ body = <<>>
    /\ \E b \in Bodies : served = Concat(b)
    /\ ((url = UrlCat /\ content_type = CtJpeg /\ probed = {})
          => result = CatPath)

C3_Witness ==
  /\ pc = "returned"
  /\ url = UrlCat
  /\ result = CatPath
  /\ files[CatName] = <<1, 2, 3>>
  /\ downloaded = 3

\* C4: when the content type does not begin with image/ and the answer to
\* the confirmation is not a case-insensitive y, download_image returns no
\* path and the attempt has created or written no file.
C4_DeclineWritesNothing ==
  (pc = "returned" /\ ~startswith(content_type, ImagePrefix)
     /\ proceed # <<"y">>)
    => (result = None /\ ~wrote /\ ~file_open)

C4_Witness ==
  /\ pc = "returned"
  /\ content_type = CtHtml
  /\ proceed = <<"y","e","s">>
  /\ printed = <<PromptContinue, MsgCancelled>>
  /\ result = None

\* the message the error taxonomy assigns to an exception
KindMessage(exc) ==
  CASE exc \in {"ConnectTimeout", "ReadTimeout"} -> MsgTimeout
    [] exc = "ConnectionError" -> MsgConnFailed
    [] exc = "HTTPError" -> MsgHTTP
    [] exc = "TooManyRedirects" -> MsgRedirects
    [] exc \in {"ChunkedEncodingError", "MissingSchema"} -> MsgFailedDownload
    [] exc \in {"PermissionError", "IsADirectoryError"} -> MsgFailedSave
    [] exc \in {"ValueError", "EOFError"} -> MsgUnexpected

C6_AllReleased == pc = "returned" => (~file_open /\ ~resp_open)

Farewell(out) == \E i \in 1..Len(out) : out[i] = MsgGoodbye
Prompted(out) ==
  \E i \in 1..Len(out) : out[i] \in {PromptURL, PromptContinue, PromptAnother}

QuitSet == {<<"q","u","i","t">>, <<"e","x","i","t">>, <<"q">>}

\* a step of the program (not of the environment) taken at the URL prompt
PromptStep == pc = "prompt" /\ files' = files
\* a step of the program taken at the download-another prompt
AskStep == pc = "ask"

\* what holds of every step whichever reading of the input line is taken
LoopFrame ==
  /\ (pc = "start" =>
        (\/ dir_ready' /\ pc' = "prompt"
         \/ ~dir_ready' /\ pc' = "terminated" /\ calls' = 0
              /\ ~Prompted(printed')))
  /\ (pc \in {"get", "confirm", "resolve", "probe", "open", "stream"} =>
        (/\ pc' \in {"get", "confirm", "resolve", "probe", "open", "stream",
                     "returned"}
         /\ calls' = calls))
  /\ (pc = "returned" => (pc' \in {"returned", "ask"} /\ calls' = calls))
  /\ (AskStep =>
        (/\ calls' = calls
         /\ IF lower(line') = <<"y">> THEN pc' = "prompt"
            ELSE pc' = "terminated" /\ Farewell(printed')))
  /\ (pc = "terminated" => pc' = "terminated")

\* C7 as stated: a line equal, case-insensitively, to quit, exit or q ends
\* the loop without a fetch; an empty or whitespace-only line re-prompts
\* without a fetch; any other line calls download_image once; every
\* termination prints the farewell.
C7_TwoStates ==
  [][/\ LoopFrame
     /\ (PromptStep =>
           (/\ (lower(line') \in QuitSet =>
                  (pc' = "terminated" /\ calls' = calls))
            /\ (strip(line') = <<>> => (pc' = "prompt" /\ calls' = calls))
            /\ ((lower(line') \notin QuitSet /\ strip(line') # <<>>) =>
                  (pc' = "get" /\ calls' = calls + 1))))
     /\ (pc' = "terminated" => Farewell(printed'))]_vars

\* C7 amended: the line is stripped of surrounding whitespace before it is
\* compared, so a quit word with blanks around it also ends the loop; the
\* farewell is printed when the loop ends, while the termination on a
\* failed create_directory prints the abort message and no farewell.
C7_TwoStatesStripped ==
  [][/\ LoopFrame
     /\ (PromptStep =>
           (/\ (lower(strip(line')) \in QuitSet =>
                  (pc' = "terminated" /\ calls' = calls
                     /\ Farewell(printed')))
            /\ (strip(line') = <<>> => (pc' = "prompt" /\ calls' = calls))
            /\ ((lower(strip(line')) \notin QuitSet /\ strip(line') # <<>>) =>
                  (pc' = "get" /\ calls' = calls + 1
                     /\ url' = strip(line')))))
     /\ ((pc = "start" /\ pc' = "terminated") =>
           (printed'[Len(printed')] = MsgCannotProceed
              /\ ~Farewell(printed')))]_vars

C7_Witness ==
  /\ pc = "terminated"
  /\ dir_ready
  /\ calls = 2
  /\ line = <<" ","Q","u","i","t">>
  /\ Farewell(printed)

AsciiSafe == AsciiLetters \cup Digits \cup {"_", ".", "-"}
WordSafe == AsciiSafe \cup UnicodeLetters

\* C8 as stated: the filename is non-empty and holds only characters of
\* [A-Za-z0-9_.-].
C8_AsciiOnly ==
  pc \in {"fn_named", "fn_probed"} =>
    /\ filename # <<>>
    /\ \A i \in 1..Len(filename) : filename[i] \in AsciiSafe

\* C8 amended: the filename is non-empty and every character that is not a
\* letter or digit of any script, an underscore, a hyphen or a period has
\* been replaced by an underscore; letters outside ASCII are kept.
C8_WordCharsOnly ==
  pc \in {"fn_named", "fn_probed"} =>
    /\ filename # <<>>
    /\ \A i \in 1..Len(filename) : filename[i] \in WordSafe
    /\ (~rejected(url_filename(url)) =>
          (/\ Len(filename) = Len(url_filename(url))
           /\ \A i \in 1..Len(filename) :
                filename[i] = IF url_filename(url)[i] \in WordSafe
                              THEN url_filename(url)[i] ELSE "_"))

C8_Witness ==
  /\ pc = "fn_named"
  /\ "U+00E9" \in Range(filename)
  /\ "+" \in Range(url_filename(url))
  /\ "_" \in Range(filename)

\* type/subtype[;params] with non-empty type and subtype
WellFormedType(ct) ==
  LET i == find(ct, {"/"}, 1)
      sub == split_first(Slice(ct, i + 1, Len(ct)), ";")
  IN  /\ i > 1
      /\ \A k \in 1..(i - 1) : ct[k] \notin {";", " "}
      /\ sub # <<>>
      /\ \A k \in 1..Len(sub) : sub[k] \notin {"/", " "}

\* the extension the claim assigns to a content type
ClaimedExtension(ct) ==
  IF WellFormedType(ct)
  THEN split_first(Slice(ct, find(ct, {"/"}, 1) + 1, Len(ct)), ";")
  ELSE <<"b", "i", "n">>

\* C9 as stated: when the URL's last segment is rejected the name is
\* image_<timestamp>.<ext> with <ext> the subtype of the content type, its
\* parameters removed and its case kept, and bin for an empty or malformed
\* content type.
C9_SubtypeExtension ==
  (pc = "fn_named" /\ rejected(url_filename(url))) =>
    filename = re_sub_unsafe(split_first(
                 <<"i","m","a","g","e","_">> \o strftime(now) \o <<".">>
                   \o ClaimedExtension(content_type), "?"))

IsDirectChild(p) ==
  /\ startswith(p, download_dir \o <<"/">>)
  /\ entry_of(p) # <<>>
  /\ "/" \notin Range(entry_of(p))
  /\ entry_of(p) \notin DotEntries

\* C10: the path the probe ends on is a direct child of the output
\* directory: no separator after the directory prefix, and neither the
\* directory itself nor its parent.
C10_DirectChild == pc = "fn_probed" => IsDirectChild(filepath)

C10_Witness ==
  /\ pc = "fn_probed"
  /\ filename = <<".", ".">>
  /\ filepath = path_join(download_dir, <<".", ".", "_", "1">>)

====
